---- MODULE Spec2Model ----
(***************************************************************************)
(* Model of the BitFieldSet of bitfields-rs (src/src/lib.rs).              *)
(*                                                                         *)
(* A u32 is modelled as the set of the indices of its 1 bits (a subset of  *)
(* 0 .. 31): TLC's integers stop at 2^31 - 1, and the bit operations of    *)
(* the code (|, &, <<, >>) are set operations in this form.  The u32       *)
(* arithmetic of the code (+, -, pow) is modelled with its overflow: a     *)
(* debug build panics there, a release build wraps (and masks a shift      *)
(* amount with 31).  The build profile is chosen in Init.                  *)
(***************************************************************************)
EXTENDS Integers, FiniteSets, Sequences, TLC

VARIABLES num_bits, storage, entries, build, calls, last, pre, copy

vars == <<num_bits, storage, entries, build, calls, last, pre, copy>>

\* Number of calls made on one set in a run.
MaxCalls == 3

\* StorageType = u32: mem::size_of::<StorageType>() * 8
StorageBits == 32

----------------------------------------------------------------------------
\* u32 values as sets of bit indices

BitIdx == 0 .. (StorageBits - 1)

U32Max == BitIdx

Zero == {}

\* The u32 of a natural number below 2^31.
ToBits(n) == {i \in 0 .. 30 : (n \div (2^i)) % 2 = 1}

MaxOf(S) == CHOOSE x \in S : \A y \in S : y <= x

MinOf(S) == CHOOSE x \in S : \A y \in S : x <= y

\* a < b, for numbers of any width
Lt(a, b) == LET d == (a \ b) \cup (b \ a) IN d # {} /\ MaxOf(d) \in b

Gt(a, b) == Lt(b, a)

Le(a, b) == ~Lt(b, a)

\* Ripple-carry addition from bit i upwards
RECURSIVE AddFrom(_, _, _, _)
AddFrom(a, b, i, carry) ==
    IF i = StorageBits
    THEN (IF carry THEN {StorageBits} ELSE {})
    ELSE IF ~carry /\ \A j \in a : j < i
    THEN {j \in b : j >= i}
    ELSE IF ~carry /\ \A j \in b : j < i
    THEN {j \in a : j >= i}
    ELSE LET n == (IF i \in a THEN 1 ELSE 0) + (IF i \in b THEN 1 ELSE 0)
                  + (IF carry THEN 1 ELSE 0)
         IN  (IF n % 2 = 1 THEN {i} ELSE {}) \cup AddFrom(a, b, i + 1, n >= 2)

\* The mathematical sum of two u32 (33 bits: bit 32 is the carry out).
MathSum(a, b) == AddFrom(a, b, 0, FALSE)

RECURSIVE SumPow(_)
SumPow(S) == IF S = {} THEN 0 ELSE LET i == MinOf(S) IN 2^i + SumPow(S \ {i})

\* The natural number of a u32 below 2^31.
ToNat(a) == SumPow(a)

\* size_of::<StorageType>() * 8 as a u32
SupportedBits == ToBits(StorageBits)

Or(a, b) == a \cup b

And(a, b) == a \cap b

\* a << n and a >> n on 32 bits, for 0 <= n < 32
ShlBits(a, n) == {i + n : i \in a} \cap BitIdx

ShrBits(a, n) == {i - n : i \in a} \cap BitIdx

----------------------------------------------------------------------------
\* Results of the calls

Errors == {"DataTooLarge", "OutOfBounds", "WouldOverlap", "TryFromError"}

Ok(v) == [kind |-> "Ok", err |-> "", val |-> v]

Err(e) == [kind |-> "Err", err |-> e, val |-> Zero]

Some(v) == [kind |-> "Some", err |-> "", val |-> v]

None == [kind |-> "None", err |-> "", val |-> Zero]

Panic == [kind |-> "Panic", err |-> "", val |-> Zero]

\* u32 arithmetic of a build: `checked` carries the overflow checks (debug)
Checked == build = "debug"

\* a + b in u32: Panic on overflow when checked, the wrapped sum otherwise
AddU32(a, b) ==
    LET m == MathSum(a, b)
    IN  IF StorageBits \in m /\ Checked THEN Panic ELSE Ok(m \cap BitIdx)

\* a << n in u32; the amount n is a u32
ShlU32(a, n) ==
    IF Le(SupportedBits, n)
    THEN (IF Checked THEN Panic ELSE Ok(ShlBits(a, ToNat(n \cap (0 .. 4)))))
    ELSE Ok(ShlBits(a, ToNat(n)))

\* a >> n in u32
ShrU32(a, n) ==
    IF Le(SupportedBits, n)
    THEN (IF Checked THEN Panic ELSE Ok(ShrBits(a, ToNat(n \cap (0 .. 4)))))
    ELSE Ok(ShrBits(a, ToNat(n)))

\* (2 as u32).pow(w)
Pow2U32(w) ==
    IF Le(SupportedBits, w)
    THEN (IF Checked THEN Panic ELSE Ok(Zero))
    ELSE Ok({ToNat(w)})

\* a - 1 in u32
Sub1U32(a) ==
    IF a = Zero
    THEN (IF Checked THEN Panic ELSE Ok(U32Max))
    ELSE LET m == MinOf(a) IN Ok((a \ {m}) \cup (0 .. (m - 1)))

----------------------------------------------------------------------------
\* BitFieldSet

BitField(pos, width) == [pos |-> pos, width |-> width]

BitFieldSet(n, s, e) == [num_bits |-> n, storage |-> s, entries |-> e]

EmptyMap == [k \in {} |-> BitField(Zero, Zero)]

\* HashMap::insert(key, value)
MapInsert(m, k, v) == [x \in (DOMAIN m) \cup {k} |-> IF x = k THEN v ELSE m[x]]

\* BitFieldSet::new
new(n) ==
    LET supported_bits == SupportedBits
    IN  IF Gt(n, supported_bits)
        THEN [res |-> Err("OutOfBounds"), set |-> BitFieldSet(Zero, Zero, EmptyMap)]
        ELSE [res |-> Ok(Zero), set |-> BitFieldSet(n, Zero, EmptyMap)]

\* from that drops the raw word
from_zeroed(raw) == BitFieldSet(SupportedBits, Zero, EmptyMap)

\* impl From<StorageType> for BitFieldSet
from(raw) == BitFieldSet(SupportedBits, raw, EmptyMap)

\* BitFieldSet::check_overflow
check_overflow(s, width, pos) ==
    LET sum == AddU32(width, pos)
    IN  IF sum.kind = "Panic" THEN Panic
        ELSE IF Gt(sum.val, s.num_bits) THEN Err("OutOfBounds")
        ELSE Ok(Zero)

\* add without the contains_key test: the entry at pos is overwritten
add_overwriting(s, pos, width) ==
    IF Gt(pos, s.num_bits) THEN [res |-> Err("OutOfBounds"), set |-> s]
    ELSE LET c == check_overflow(s, width, pos)
         IN  IF c.kind # "Ok" THEN [res |-> c, set |-> s]
             ELSE [res |-> Ok(Zero),
                   set |-> [s EXCEPT !.entries =
                              MapInsert(s.entries, pos, BitField(pos, width))]]

\* BitFieldSet::add: the result and the set after the call
add(s, pos, width) ==
    IF Gt(pos, s.num_bits) THEN [res |-> Err("OutOfBounds"), set |-> s]
    ELSE LET c == check_overflow(s, width, pos)
         IN  IF c.kind # "Ok" THEN [res |-> c, set |-> s]
             ELSE IF pos \in DOMAIN s.entries
                  THEN [res |-> Err("WouldOverlap"), set |-> s]
                  ELSE [res |-> Ok(Zero),
                        set |-> [s EXCEPT !.entries =
                                   MapInsert(s.entries, pos, BitField(pos, width))]]

\* BitFieldSet::insert::<D>, D of `size` bytes: the result and the set after
insert(s, pos, width, size, data) ==
    IF Gt(pos, s.num_bits) THEN [res |-> Err("OutOfBounds"), set |-> s]
    ELSE LET data_too_large == Gt(size, s.num_bits)
             c == check_overflow(s, pos, width)
         IN  IF c.kind # "Ok" THEN [res |-> c, set |-> s]
             ELSE IF data_too_large THEN [res |-> Err("DataTooLarge"), set |-> s]
             ELSE LET sh == ShlU32(data, pos)
                  IN  IF sh.kind = "Panic" THEN [res |-> Panic, set |-> s]
                      ELSE [res |-> Ok(data),
                            set |-> [s EXCEPT
                               !.storage = Or(s.storage, sh.val),
                               !.entries = MapInsert(s.entries, pos, BitField(pos, width))]]

\* BitFieldSet::get
get(s, pos) ==
    IF pos \notin DOMAIN s.entries THEN None
    ELSE LET entry == s.entries[pos]
             p == Pow2U32(entry.width)
         IN  IF p.kind = "Panic" THEN Panic
             ELSE LET m1 == Sub1U32(p.val)
                  IN  IF m1.kind = "Panic" THEN Panic
                      ELSE LET mask == ShlU32(m1.val, entry.pos)
                           IN  IF mask.kind = "Panic" THEN Panic
                               ELSE LET value == ShrU32(And(s.storage, mask.val), entry.pos)
                                    IN  IF value.kind = "Panic" THEN Panic
                                        ELSE Some(value.val)

\* TryFrom<StorageType> of the enums of the tests: an enum of n variants
\* (n a u32) accepts the discriminants 0 .. n - 1
try_from(value, n) ==
    IF Lt(value, n) THEN Ok(value) ELSE Err("TryFromError")

\* BitFieldSet::get_as::<T>, T an enum of n variants
get_as(s, pos, n) ==
    LET value == get(s, pos)
    IN  IF value.kind = "Panic" THEN Panic
        ELSE IF value.kind = "None" THEN Err("TryFromError")
        ELSE try_from(value.val, n)

\* BitFieldSet::get_raw
get_raw(s) == s.storage

\* The fields of s registered one by one with add on the set t
RECURSIVE add_all(_, _, _)
add_all(t, e, keys) ==
    IF keys = {} THEN [set |-> t, ok |-> TRUE]
    ELSE LET k == CHOOSE x \in keys : TRUE
             r == add(t, e[k].pos, e[k].width)
             rest == add_all(r.set, e, keys \ {k})
         IN  [set |-> rest.set, ok |-> r.res.kind = "Ok" /\ rest.ok]

\* from(s.get_raw()) followed by add(pos, width) for every field of s
reimport(s) == add_all(from(get_raw(s)), s.entries, DOMAIN s.entries)

----------------------------------------------------------------------------
\* Inputs

\* Capacities given to new: 33 is refused
NewInputs == {ToBits(n) : n \in {2, 8, 32, 33}}

RawInputs == {ToBits(137)}

\* Fields <<pos, width>>: the three of the tests, the (8, 9) of
\* out_of_bounds_insertion, one overlapping the first two, one of the full
\* width, one at the end of the word, one whose pos + width passes 2^32 - 1
FieldInputs ==
    {<<ToBits(0), ToBits(2)>>, <<ToBits(2), ToBits(5)>>, <<ToBits(7), ToBits(1)>>,
     <<ToBits(8), ToBits(9)>>, <<ToBits(1), ToBits(2)>>, <<ToBits(0), ToBits(32)>>,
     <<ToBits(32), ToBits(0)>>, <<ToBits(1), U32Max>>}

PosInputs == {f[1] : f \in FieldInputs}

\* Source types D by size_of::<D>() (u8, u32) with some of their values
DataInputs ==
    {[size |-> ToBits(1), val |-> ToBits(1)], [size |-> ToBits(1), val |-> ToBits(2)],
     [size |-> ToBits(4), val |-> ToBits(3)]}

\* Target types T of get_as by their variant counts: PathTypes
TargetTypes == {ToBits(2)}

Self == BitFieldSet(num_bits, storage, entries)

NoCall == [op |-> "none", pos |-> Zero, width |-> Zero, size |-> Zero,
           data |-> Zero, res |-> Ok(Zero)]

Call(op, pos, width, size, data, res) ==
    [op |-> op, pos |-> pos, width |-> width, size |-> size,
     data |-> data, res |-> res]

NoCopy == [set |-> BitFieldSet(Zero, Zero, EmptyMap), ok |-> FALSE]

Init ==
    /\ build \in {"debug", "release"}
    /\ \E s \in {new(n).set : n \in {m \in NewInputs : new(m).res.kind = "Ok"}}
              \cup {from(raw) : raw \in RawInputs} :
          /\ num_bits = s.num_bits
          /\ storage = s.storage
          /\ entries = s.entries
    /\ calls = 0
    /\ last = NoCall
    /\ pre = Self
    /\ copy = NoCopy

\* A call is possible while the process has not panicked
CanCall == calls < MaxCalls /\ last.res.kind # "Panic"

Step(call, s) ==
    /\ num_bits' = s.num_bits
    /\ storage' = s.storage
    /\ entries' = s.entries
    /\ last' = call
    /\ pre' = Self
    /\ calls' = calls + 1
    /\ UNCHANGED build

CallAdd ==
    /\ CanCall
    /\ \E f \in FieldInputs :
          LET pos == f[1]
              width == f[2]
              r == add(Self, pos, width)
          IN  Step(Call("add", pos, width, Zero, Zero, r.res), r.set)
    /\ copy' = NoCopy

CallInsert ==
    /\ CanCall
    /\ \E f \in FieldInputs, d \in DataInputs :
          LET pos == f[1]
              width == f[2]
              r == insert(Self, pos, width, d.size, d.val)
          IN  Step(Call("insert", pos, width, d.size, d.val, r.res), r.set)
    /\ copy' = NoCopy

CallGet ==
    /\ CanCall
    /\ \E pos \in PosInputs :
          Step(Call("get", pos, Zero, Zero, Zero, get(Self, pos)), Self)
    /\ copy' = NoCopy

CallGetAs ==
    /\ CanCall
    /\ \E pos \in PosInputs, n \in TargetTypes :
          Step(Call("get_as", pos, Zero, n, Zero, get_as(Self, pos, n)), Self)
    /\ copy' = NoCopy

CallGetRaw ==
    /\ CanCall
    /\ Step(Call("get_raw", Zero, Zero, Zero, Zero, Ok(get_raw(Self))), Self)
    /\ copy' = NoCopy

\* The raw word exported, re-imported, and the fields registered again
ReImport ==
    /\ CanCall
    /\ copy' = reimport(Self)
    /\ Step(Call("reimport", Zero, Zero, Zero, Zero, Ok(get_raw(Self))), Self)

Next == CallAdd \/ CallInsert \/ CallGet \/ CallGetAs \/ CallGetRaw \/ ReImport

Spec == Init /\ [][Next]_vars

\* The runs of a release build (no overflow checks)
InitRelease == Init /\ build = "release"

SpecRelease == InitRelease /\ [][Next]_vars

----------------------------------------------------------------------------
\* Properties

\* value < 2^width
ValueFits(value, width) == \A i \in value : Lt(ToBits(i), width)

\* pos + width <= n as mathematical integers
RangeFits(pos, width, n) == Le(MathSum(pos, width), n)

\* (word >> pos) AND (2^width - 1) as mathematical integers
FieldValue(word, pos, width) ==
    IF Le(SupportedBits, pos) THEN Zero
    ELSE {i \in ShrBits(word, ToNat(pos)) : Lt(ToBits(i), width)}

\* (data << pos) truncated to 32 bits, as mathematical integers
ShiftedData(data, pos) ==
    IF Le(SupportedBits, pos) THEN Zero ELSE ShlBits(data, ToNat(pos))

\* The bit ranges [pos, pos + width) of two fields share a bit
Overlap(e1, e2) ==
    /\ Lt(e1.pos, MathSum(e2.pos, e2.width))
    /\ Lt(e2.pos, MathSum(e1.pos, e1.width))
    /\ e1.width # Zero
    /\ e2.width # Zero

SetUnchanged == storage = pre.storage /\ entries = pre.entries

\* C1: a successful insert(pos, width, value) with value < 2^width and
\* pos + width <= num_bits, immediately followed by get(pos), makes get
\* return exactly value.
C1_RoundTrip ==
    [][(/\ last.op = "insert"
        /\ last.res.kind = "Ok"
        /\ ValueFits(last.data, last.width)
        /\ RangeFits(last.pos, last.width, num_bits)
        /\ last'.op = "get"
        /\ last'.pos = last.pos)
       => last'.res = Some(last.data)]_vars

\* C2: the set rebuilt by from(get_raw()) and add(pos, width) for every
\* registered field accepts every add, reads the same at every position
\* (registered or not) and exports the same raw word.
C2_ReImportEquivalent ==
    last.op = "reimport" =>
        /\ copy.ok
        /\ \A pos \in PosInputs : get(copy.set, pos) = get(Self, pos)
        /\ get_raw(copy.set) = get_raw(Self)

\* C2 witness: a set made by new(8) with at least two registered fields,
\* each reading a non-zero value, has been exported and re-imported.
C2_Witness ==
    /\ last.op = "reimport"
    /\ num_bits = ToBits(8)
    /\ Cardinality(DOMAIN entries) >= 2
    /\ \A pos \in DOMAIN entries :
          get(copy.set, pos).kind = "Some" /\ get(copy.set, pos).val # Zero

\* C3: add(pos, width) at a position that already has a field, the range
\* check passing, returns Err(WouldOverlap) and leaves the recorded field,
\* the storage word and the value read at pos as they were.
C3_OverlapRejected ==
    (/\ last.op = "add"
     /\ last.pos \in DOMAIN pre.entries
     /\ Le(last.pos, pre.num_bits)
     /\ check_overflow(pre, last.width, last.pos).kind = "Ok")
    => /\ last.res = Err("WouldOverlap")
       /\ entries = pre.entries
       /\ storage = pre.storage
       /\ get(Self, last.pos) = get(pre, last.pos)

\* C3 witness: an add of another width was refused at the position of an
\* inserted field, which still reads a non-zero value.
C3_Witness ==
    /\ last.op = "add"
    /\ last.res = Err("WouldOverlap")
    /\ entries[last.pos].width # last.width
    /\ get(Self, last.pos).kind = "Some"
    /\ get(Self, last.pos).val # Zero

\* C4: every add and insert whose mathematical pos + width exceeds the
\* capacity returns Err(OutOfBounds) and leaves storage and the registered
\* fields unchanged.
C4_CapacityRejected ==
    (/\ last.op \in {"add", "insert"}
     /\ ~RangeFits(last.pos, last.width, pre.num_bits))
    => last.res = Err("OutOfBounds") /\ SetUnchanged

\* C5: no two registered fields occupy overlapping bit ranges.
C5_NoOverlap ==
    \A k1 \in DOMAIN entries, k2 \in DOMAIN entries :
        k1 # k2 => ~Overlap(entries[k1], entries[k2])

\* C6: num_bits <= 32 and every registered entry has
\* pos + width <= num_bits as mathematical integers.
C6_Bounds ==
    /\ Le(num_bits, SupportedBits)
    /\ \A k \in DOMAIN entries :
          RangeFits(entries[k].pos, entries[k].width, num_bits)

\* C7: every call of add, insert, get, get_as and get_raw completes by
\* returning a value; no arithmetic step leaves the u32 range or shifts by
\* 32 or more bits.
C7_NoPanic == last.res.kind # "Panic"

\* C8: insert returns Err(DataTooLarge) exactly when pos <= num_bits,
\* pos + width <= num_bits and the byte size of D exceeds num_bits; when both
\* the range check and the size check fail it returns OutOfBounds; and a
\* DataTooLarge leaves storage and the registered fields unchanged.
C8_DataTooLarge ==
    last.op = "insert" =>
        LET range_ok == /\ Le(last.pos, pre.num_bits)
                        /\ RangeFits(last.pos, last.width, pre.num_bits)
            too_large == Gt(last.size, pre.num_bits)
        IN  /\ (last.res = Err("DataTooLarge")) <=> (range_ok /\ too_large)
            /\ (~range_ok /\ too_large) => last.res = Err("OutOfBounds")
            /\ (last.res = Err("DataTooLarge")) => SetUnchanged

\* C9: get(pos) returns None, and get_as(pos) returns Err(TryFromError), if
\* and only if no field is registered at exactly pos; otherwise get(pos)
\* returns (storage >> pos) AND (2^width - 1), a value < 2^width; get, get_as
\* and get_raw leave storage and the registered fields unchanged.
C9_ReadSemantics ==
    /\ last.op = "get" =>
          IF last.pos \notin DOMAIN pre.entries
          THEN last.res = None
          ELSE /\ last.res = Some(FieldValue(pre.storage, last.pos,
                                             pre.entries[last.pos].width))
               /\ ValueFits(last.res.val, pre.entries[last.pos].width)
    /\ last.op = "get_as" =>
          ((last.res = Err("TryFromError")) <=> (last.pos \notin DOMAIN pre.entries))
    /\ last.op \in {"get", "get_as", "get_raw"} => SetUnchanged

\* C10: a successful insert(pos, width, data) sets storage to the old
\* storage OR (data << pos) truncated to 32 bits, puts (pos, width) at pos in
\* place of any entry there, leaves every other entry unchanged and returns
\* the data unmasked.
C10_InsertEffect ==
    (last.op = "insert" /\ last.res.kind = "Ok")
    => /\ storage = Or(pre.storage, ShiftedData(last.data, last.pos))
       /\ entries = MapInsert(pre.entries, last.pos, BitField(last.pos, last.width))
       /\ last.res = Ok(last.data)

====
